---- MODULE Spec2Model ----
(***************************************************************************)
(* A model of the Gmail retrieval pipeline of backend/app:                 *)
(*   fetcher_gmail/gmail_client.py  (retried GET, page walker, readers,    *)
(*                                   streaming projections, auth guard)    *)
(*   llm/routes.py                  (the guarded summarize_email route)    *)
(*   auth_gmail/routes.py           (OAuth callback and logout)            *)
(* One logical task runs at a time.  Every network round trip is one       *)
(* action; the server's answer is a nondeterministic input of that action. *)
(***************************************************************************)
EXTENDS Integers, Sequences, FiniteSets, TLC

VARIABLES
    op,           \* the top-level operation in progress ("idle" when none)
    pc,           \* position of the running task
    stack,        \* return positions of the callers of _backoff_get
    outcome,      \* how the top-level operation ended: [kind, value]
    max_retries,  \* _backoff_get: parameter max_retries
    attempt,      \* _backoff_get: loop variable attempt
    resp,         \* _backoff_get: local resp, the last response received
    log,          \* statuses of the responses received by the current _backoff_get call
    sleeps,       \* number of backoff sleeps of the current _backoff_get call
    url,          \* _backoff_get: the endpoint the current call reads
    net,          \* retried GETs begun since the operation began, per endpoint
    listing,      \* server side: the item count of each page of the listing queried
    params,       \* _paginate: local params, the dict sent with each page request
    caller_params,\* the params dict the caller of _paginate passed
    data,         \* _paginate: local data, the body of the page just read
    idx,          \* _paginate: how many items of data the for loop has yielded
    served,       \* the list responses _paginate has read, in arrival order
    yielded,      \* the items the consumer of the lazy sequence has received
    limit,        \* iter_*: parameter limit
    count,        \* iter_*: local count
    prefer_plain, \* fetch_llm_projection: parameter prefer_plain
    msg_id,       \* the id of the message being fetched
    full,         \* fetch_message_full's result, the raw message
    nodes,        \* the parts of full's payload in the order walk visits them
    widx,         \* how many of nodes walk has done
    txts,         \* walk: the text/plain contents collected
    htmls,        \* walk: the text/html contents collected
    att_log,      \* statuses that ended the attachment fetches of the walk
    session,      \* request.session, the signed cookie session
    req,          \* the query parameters of the request being handled
    state_token,  \* request.state.token
    client,       \* the per-request Gmail client: "none", "open", "closed"
    closes,       \* how many times the per-request client was closed
    llm_calls,    \* chat-completion calls made for the request
    llm_log,      \* the chat-completion calls of the request: [body, raised]
    http          \* the response of the request: [status, detail]

retryVars == <<max_retries, attempt, resp, log, sleeps, url>>
ctlVars == <<op, pc, stack, outcome>>
pageVars == <<params, caller_params, data, idx, served>>
streamVars == <<limit, count>>
msgVars == <<prefer_plain, msg_id, full, nodes, widx, txts, htmls, att_log>>
routeVars == <<session, req, state_token, client, closes, llm_calls, llm_log, http>>
vars == <<ctlVars, retryVars, net, listing, pageVars, yielded, streamVars, msgVars, routeVars>>

None == "None"
\* a page token that is absent (None in the code); tokens in use are positive
NoToken == 0
\* limit = None
NoLimit == -1
\* no message id
NoId == 0

\* ------------------------------------------------------------------ bounds
\* largest max_retries a direct caller of _backoff_get passes
MaxRetriesBound == 3
\* most pages a listing has, and most items a page has
MaxPages == 3
MaxPageItems == 2
\* most pages of a listing a streaming projection runs over
MaxStreamPages == 2
\* largest limit a caller of a streaming projection passes
MaxLimit == 2
\* most entries a header list has
MaxHeaders == 2
\* most characters an internalDate string has
MaxDateLen == 2
\* most children a multipart node has
MaxChildren == 2

\* ------------------------------------------------------- program constants
\* gmail_client.py:11
TRANSIENT_STATUSES == {429, 500, 502, 503}
\* gmail_client.py:59, the default every caller inside the module relies on
DefaultMaxRetries == 5

\* statuses the server answers a direct retried GET with
AnyStatuses == {200, 401, 404, 429, 500, 502, 503}
\* statuses the Gmail endpoints answer with: success, a permanent error, a
\* transient error
GmailStatuses == {200, 404, 503}
Endpoints == {"any", "list", "detail", "attach", "profile", "history"}
NoNet == [e \in Endpoints |-> 0]

\* dict.get(key, default) on a JSON object
Get(d, k, default) == IF k \in DOMAIN d THEN d[k] ELSE default

\* ------------------------------------------------------ message payloads
\* a dict without keys
EmptyDict == [k \in {} |-> ""]
\* the body of a ContentPart: data and attachmentId are keys only when given
BodyOf(b64, att) ==
    IF b64 # ""
    THEN IF att # "" THEN [data |-> b64, attachmentId |-> att] ELSE [data |-> b64]
    ELSE IF att # "" THEN [attachmentId |-> att] ELSE EmptyDict
\* a ContentPart
Part(mime, filename, b64, att, parts) ==
    [mimeType |-> mime, filename |-> filename, body |-> BodyOf(b64, att), parts |-> parts]
NoPart == Part("", "", "", "", <<>>)
\* a single text/plain part with inline data
PayloadPlain == Part("text/plain", "", "YQ", "", <<>>)
\* a plain part inline and an html part stored by attachmentId
PayloadAlt ==
    Part("multipart/alternative", "", "", "",
         <<Part("text/plain", "", "YQ", "", <<>>),
           Part("text/html", "", "", "A2", <<>>)>>)
\* a single text/plain part stored by attachmentId
PayloadLarge == Part("text/plain", "", "", "A1", <<>>)
\* nested multiparts, an upper-case mime type and a real attachment
PayloadMixed ==
    Part("multipart/mixed", "", "", "",
         <<Part("multipart/alternative", "", "", "",
                <<Part("text/plain; charset=utf-8", "", "", "A1", <<>>),
                  Part("text/html", "", "PGI-aGk8L2I-", "", <<>>)>>),
           Part("TEXT/PLAIN", "", "Yg", "", <<>>),
           Part("application/pdf", "f.pdf", "", "A3", <<>>)>>)
\* a single text/plain part without content
PayloadEmpty == Part("text/plain", "", "", "", <<>>)
Payloads == <<PayloadPlain, PayloadAlt, PayloadLarge, PayloadMixed, PayloadEmpty>>

\* str.lower() on the mime types and the header names in use
Lower(m) ==
    CASE m = "TEXT/PLAIN" -> "text/plain"
      [] m = "Subject" -> "subject"
      [] m = "SUBJECT" -> "subject"
      [] m = "From" -> "from"
      [] m = "Date" -> "date"
      [] OTHER -> m
\* str.startswith on the mime types in use
StartsWith(m, prefix) ==
    IF m = prefix THEN TRUE
    ELSE IF prefix = "multipart/" THEN m \in {"multipart/mixed", "multipart/alternative"}
    ELSE IF prefix = "text/plain" THEN m = "text/plain; charset=utf-8"
    ELSE FALSE
\* _b64url_decode followed by the utf-8 decoding, on the contents in use; a
\* decoded text is the sequence of its characters
B64Decode(b64) ==
    CASE b64 = "YQ" -> <<"a">>
      [] b64 = "Yg" -> <<"b">>
      [] b64 = "Yw" -> <<"c">>
      [] b64 = "PGI-aGk8L2I-" -> <<"<", "b", ">", "h", "i", "<", "/", "b", ">">>
      [] b64 = "PGk-eDwvaT4" -> <<"<", "i", ">", "x", "<", "/", "i", ">">>
      [] OTHER -> <<"?">>

RECURSIVE Preorder(_)
RECURSIVE PreorderAll(_)
\* the parts of a tree in the order walk's recursion reaches them
Preorder(part) == <<part>> \o PreorderAll(part.parts)
PreorderAll(parts) ==
    IF parts = <<>> THEN <<>> ELSE Preorder(Head(parts)) \o PreorderAll(Tail(parts))

\* an optional text: None, or the characters of a string
NoneText == [some |-> FALSE, chars |-> <<>>]
SomeText(chars) == [some |-> TRUE, chars |-> chars]
\* the truth value Python gives an optional string
Truthy(t) == t.some /\ t.chars # <<>>
RECURSIVE JoinNewline(_)
\* b"\n".join(chunks)
JoinNewline(chunks) ==
    IF Len(chunks) = 1 THEN chunks[1]
    ELSE chunks[1] \o <<"\n">> \o JoinNewline(Tail(chunks))
\* lines 393-394: the joined body, or None without chunks
JoinedOrNone(chunks) == IF chunks = <<>> THEN NoneText ELSE SomeText(JoinNewline(chunks))

\* ------------------------------------------------------------ the server
\* the listings a query can match: 1..MaxPages pages of 0..MaxPageItems items
ListingsOf(maxPages) == UNION {[1..n -> 0..MaxPageItems] : n \in 1..maxPages}
Listings == ListingsOf(MaxPages)
\* the id of item i of page p
ItemId(p, i) == 10 * p + i
PageItems(l, p) == [i \in 1..l[p] |-> [id |-> ItemId(p, i)]]
\* the JSON body of page p of listing l under key k: the item array is left
\* out when the page is empty, nextPageToken when the page is the last
PageBody(l, p, k) ==
    IF l[p] > 0
    THEN IF p < Len(l)
         THEN IF k = "messages"
              THEN [messages |-> PageItems(l, p), nextPageToken |-> p + 1]
              ELSE [history |-> PageItems(l, p), nextPageToken |-> p + 1]
         ELSE IF k = "messages"
              THEN [messages |-> PageItems(l, p)]
              ELSE [history |-> PageItems(l, p)]
    ELSE IF p < Len(l)
         THEN [resultSizeEstimate |-> 0, nextPageToken |-> p + 1]
         ELSE [resultSizeEstimate |-> 0]
\* the JSON body of an error response
ErrorBody(s) == [error |-> s]
\* the page a list request asks for: the first one without a page token
PageAsked(prm) ==
    IF Get(prm, "pageToken", NoToken) = NoToken THEN 1 ELSE prm["pageToken"]
\* the raw message the store holds under an id
Mailbox(id) ==
    [id |-> id,
     internalDate |-> SomeText(<<"1", "7">>),
     payload |-> ("headers" :> <<[name |-> "From", value |-> "a@x"],
                                 [name |-> "Subject", value |-> "Hi"]>>)
                 @@ Payloads[((id + 2 * (id \div 10)) % Len(Payloads)) + 1]]
NoMessage == [id |-> NoId, payload |-> NoPart]
\* the base64url content the store holds under an attachment id
AttachmentData(att) ==
    CASE att = "A1" -> "Yw"
      [] att = "A2" -> "PGk-eDwvaT4"
      [] OTHER -> "AAAA"
\* the history cursor of the account
ProfileHistoryId == "h7"
ServerStatuses(u) == IF u = "any" THEN AnyStatuses ELSE GmailStatuses
ServerBody(u, s) ==
    IF u = "any" THEN None
    ELSE IF s # 200 THEN ErrorBody(s)
    ELSE CASE u = "list" -> PageBody(listing, PageAsked(params), "messages")
           [] u = "history" -> PageBody(listing, PageAsked(params), "history")
           [] u = "detail" -> Mailbox(msg_id)
           [] u = "attach" -> [data |-> AttachmentData(nodes[widx + 1].body.attachmentId)]
           [] u = "profile" -> [historyId |-> ProfileHistoryId]

\* httpx.Response.raise_for_status raises for 4xx and 5xx
RaisesForServerErrorsOnly(s) == s >= 500 /\ s < 600
IsErrorStatus(s) == s >= 400 /\ s < 600

NoOutcome == [kind |-> "none", value |-> None]
NoResp == [status |-> 0, seq |-> 0, body |-> None]

\* ------------------------------------------------------------- _backoff_get
\* where an exception ends up that no frame of gmail_client.py catches: in
\* summarize_email's finally clause, else at the caller of the operation
RaiseBypassesFinally == IF op = "summarize_email" THEN "idle" ELSE "done"
RaiseTarget == IF op = "summarize_email" THEN "se_finally" ELSE "done"

\* entry of _backoff_get(..., max_retries = m), to return to position ret
EnterBackoff(u, m, ret) ==
    /\ url' = u
    /\ net' = [net EXCEPT ![u] = @ + 1]
    /\ max_retries' = m
    /\ attempt' = 0
    /\ resp' = NoResp
    /\ log' = <<>>
    /\ sleeps' = 0
    /\ stack' = <<ret>> \o stack
    /\ pc' = IF 0 < m + 1 THEN "bg_get" ELSE "bg_raise"

\* a direct call of _backoff_get with any max_retries >= 0
CallBackoffGet ==
    /\ pc = "idle"
    /\ \E m \in 0..MaxRetriesBound :
        /\ op' = "backoff_get"
        /\ outcome' = NoOutcome
        /\ EnterBackoff("any", m, "top_return")
    /\ UNCHANGED <<listing, pageVars, yielded, streamVars, msgVars, routeVars>>

\* the transient test of line 64
RetryTransientOnly(s) == s \in TRANSIENT_STATUSES
RetryEveryError(s) == s >= 400
IsTransient(s) == RetryTransientOnly(s)

\* number of passes of the for loop of line 62
LoopPassesExact(m) == m + 1
LoopPassesOneMore(m) == m + 2
LoopPasses(m) == LoopPassesExact(m)

\* lines 63-65: one GET and the test of its status
BackoffRequest ==
    /\ pc = "bg_get"
    /\ \E s \in ServerStatuses(url) :
        LET r == [status |-> s, seq |-> Len(log) + 1, body |-> ServerBody(url, s)] IN
        /\ resp' = r
        /\ log' = Append(log, s)
        /\ IF ~IsTransient(s)
           THEN /\ pc' = Head(stack)
                /\ stack' = Tail(stack)
           ELSE /\ pc' = "bg_sleep"
                /\ UNCHANGED stack
    /\ UNCHANGED <<op, outcome, max_retries, attempt, sleeps, url>>
    /\ UNCHANGED <<net, listing, pageVars, yielded, streamVars, msgVars, routeVars>>

\* line 66 and the loop head of line 62
BackoffSleep ==
    /\ pc = "bg_sleep"
    /\ sleeps' = sleeps + 1
    /\ attempt' = attempt + 1
    /\ pc' = IF attempt + 1 < LoopPasses(max_retries) THEN "bg_get" ELSE "bg_raise"
    /\ UNCHANGED <<op, stack, outcome, max_retries, resp, log, url>>
    /\ UNCHANGED <<net, listing, pageVars, yielded, streamVars, msgVars, routeVars>>

\* lines 67-68: raise_for_status on the last response, else return it
BackoffRaise ==
    /\ pc = "bg_raise"
    /\ IF IsErrorStatus(resp.status)
       THEN /\ pc' = RaiseTarget
            /\ stack' = <<>>
            /\ outcome' = [kind |-> "raised", value |-> resp]
       ELSE /\ pc' = Head(stack)
            /\ stack' = Tail(stack)
            /\ UNCHANGED outcome
    /\ UNCHANGED <<op, retryVars, net, listing, pageVars, yielded, streamVars, msgVars, routeVars>>

\* the direct caller receives the response as a value
TopReturn ==
    /\ pc = "top_return"
    /\ outcome' = [kind |-> "returned", value |-> resp]
    /\ pc' = "done"
    /\ UNCHANGED <<op, stack, retryVars, net, listing, pageVars, yielded, streamVars, msgVars, routeVars>>

\* ----------------------------------------------------------------- _paginate
\* the operations that consume _paginate directly
WalkerOps == {"paginate", "iter_history_pages"}
\* the streaming projections
StreamOps == {"iter_llm_projection", "iter_messages_normalized", "iter_messages_full_no_blobs"}
\* the operations that build an LLM projection of a message
LlmOps == {"iter_llm_projection", "fetch_llm_projection", "summarize_email"}

\* the params list_all_message_ids passes (lines 97-101, without a query)
ListParams == [maxResults |-> 500]
\* the params iter_history_pages passes (line 341)
HistoryParams ==
    [startHistoryId |-> ProfileHistoryId, historyTypes |-> "messageAdded,messageDeleted",
     maxResults |-> 1000]
\* no params
NoParams == EmptyDict

\* line 77, params = dict(params or {}): the walker assigns to a dict of its
\* own, so the dict of the caller stays what it was
AliasedParams(callers, walkers) == walkers
CopiedParams(callers, walkers) == callers
CallerParamsAfter(callers, walkers) == CopiedParams(callers, walkers)

\* the state of the locals of a walk that has not begun
ResetReader(id, prm) ==
    /\ caller_params' = prm
    /\ params' = prm
    /\ data' = ErrorBody(0)
    /\ idx' = 0
    /\ served' = <<>>
    /\ yielded' = <<>>
    /\ count' = 0
    /\ msg_id' = id
    /\ full' = NoMessage
    /\ nodes' = <<>>
    /\ widx' = 0
    /\ txts' = <<>>
    /\ htmls' = <<>>
    /\ att_log' = <<>>
    /\ net' = NoNet
    /\ outcome' = NoOutcome

\* a direct, full or partial, consumption of _paginate over the message list
CallPaginate ==
    /\ pc = "idle"
    /\ \E l \in Listings : listing' = l
    /\ op' = "paginate"
    /\ ResetReader(NoId, ListParams)
    /\ pc' = "pg_get"
    /\ UNCHANGED <<stack, retryVars, limit, prefer_plain, routeVars>>

\* iter_history_pages (lines 341-343): the walker over the history list, each
\* of its items passed on to the consumer
CallIterHistoryPages ==
    /\ pc = "idle"
    /\ \E l \in Listings : listing' = l
    /\ op' = "iter_history_pages"
    /\ ResetReader(NoId, HistoryParams)
    /\ pc' = "pg_get"
    /\ UNCHANGED <<stack, retryVars, limit, prefer_plain, routeVars>>

\* the endpoint and the item key the walker of the operation reads
WalkerUrl == IF op = "iter_history_pages" THEN "history" ELSE "list"
ItemKey == IF op = "iter_history_pages" THEN "history" ELSE "messages"

\* line 79: the retried GET of one page
PaginateGet ==
    /\ pc = "pg_get"
    /\ EnterBackoff(WalkerUrl, DefaultMaxRetries, "pg_read")
    /\ UNCHANGED <<op, outcome, listing, pageVars, yielded, streamVars, msgVars, routeVars>>

\* line 80: data = resp.json()
PaginateRead ==
    /\ pc = "pg_read"
    /\ data' = resp.body
    /\ served' = Append(served, [status |-> resp.status, body |-> resp.body, asked |-> params])
    /\ idx' = 0
    /\ pc' = "pg_next"
    /\ UNCHANGED <<op, stack, outcome, retryVars, net, listing, params, caller_params, yielded>>
    /\ UNCHANGED <<streamVars, msgVars, routeVars>>

\* the test of line 84
TokenAbsent(t) == t = NoToken
StopsWhenTokenPresent(t) == t # NoToken
NoMorePages(t) == TokenAbsent(t)

\* the item the for loop of line 81 yields next
NextItemInOrder(items, i) == items[i + 1]
NextItemReversed(items, i) == items[Len(items) - i]
NextItem(items, i) == NextItemInOrder(items, i)

\* lines 81-86: yield the next item of the page, or move to the next page, or
\* end the sequence.  The item goes to the consumer of the walker, or through
\* list_all_message_ids (line 105, item["id"]) to the body of an iter_* loop.
\* The end of the sequence ends the consuming loop: summarize_email's has an
\* else clause (routes.py:59-60).
PaginateNext ==
    /\ pc = "pg_next"
    /\ LET items == Get(data, ItemKey, <<>>)
           token == Get(data, "nextPageToken", NoToken)
       IN IF idx < Len(items)
          THEN /\ idx' = idx + 1
               /\ IF op \in WalkerOps
                  THEN /\ yielded' = Append(yielded, NextItem(items, idx))
                       /\ pc' = "consumer"
                       /\ UNCHANGED msg_id
                  ELSE /\ msg_id' = NextItem(items, idx).id
                       /\ pc' = "fm_get"
                       /\ UNCHANGED yielded
               /\ UNCHANGED <<params, caller_params, outcome>>
          ELSE IF NoMorePages(token)
          THEN /\ IF op = "summarize_email"
                  THEN /\ pc' = "se_finally"
                       /\ outcome' = [kind |-> "http_exception", value |-> 404]
                  ELSE /\ pc' = "done"
                       /\ outcome' = [kind |-> "exhausted", value |-> None]
               /\ UNCHANGED <<params, caller_params, idx, yielded, msg_id>>
          ELSE /\ params' = ("pageToken" :> token) @@ params
               /\ caller_params' = CallerParamsAfter(caller_params, ("pageToken" :> token) @@ params)
               /\ pc' = "pg_get"
               /\ UNCHANGED <<idx, yielded, outcome, msg_id>>
    /\ UNCHANGED <<op, stack, retryVars, net, listing, data, served, streamVars>>
    /\ UNCHANGED <<prefer_plain, full, nodes, widx, txts, htmls, att_log, routeVars>>

\* the consumer of the lazy sequence asks for the next item: the walker
\* resumes after its yield, a streaming projection after its own (count += 1)
ConsumerPull ==
    /\ pc = "consumer"
    /\ pc' = IF op \in WalkerOps THEN "pg_next" ELSE "it_resume"
    /\ UNCHANGED <<op, stack, outcome, retryVars, net, listing, pageVars, yielded>>
    /\ UNCHANGED <<streamVars, msgVars, routeVars>>

\* the consumer of the lazy sequence stops consuming
ConsumerStop ==
    /\ pc = "consumer"
    /\ pc' = "done"
    /\ outcome' = [kind |-> "stopped", value |-> None]
    /\ UNCHANGED <<op, stack, retryVars, net, listing, pageVars, yielded>>
    /\ UNCHANGED <<streamVars, msgVars, routeVars>>

\* ------------------------------------------------------ streaming projections
\* a call of one of the three streaming projections, consumed from its start
CallIter ==
    /\ pc = "idle"
    /\ \E l \in ListingsOf(MaxStreamPages) : listing' = l
    /\ \E o \in StreamOps : op' = o
    /\ \E n \in {NoLimit} \cup 0..MaxLimit : limit' = n
    /\ prefer_plain' = TRUE
    /\ ResetReader(NoId, ListParams)
    /\ pc' = "pg_get"
    /\ UNCHANGED <<stack, retryVars, routeVars>>

\* "if limit and count >= limit" of lines 306, 324 and 443
BreaksAtLimit(lim, cnt) == lim # NoLimit /\ lim # 0 /\ cnt >= lim
BreaksPastLimit(lim, cnt) == lim # NoLimit /\ lim # 0 /\ cnt > lim
LimitReached(lim, cnt) == BreaksAtLimit(lim, cnt)

\* lines 305-307, 323-325, 442-444: resumed after its yield, the loop counts
\* the item and breaks at the limit, else asks list_all_message_ids for more
IterResume ==
    /\ pc = "it_resume"
    /\ count' = count + 1
    /\ IF LimitReached(limit, count + 1)
       THEN /\ pc' = "done"
            /\ outcome' = [kind |-> "limit", value |-> None]
       ELSE /\ pc' = "pg_next"
            /\ UNCHANGED outcome
    /\ UNCHANGED <<op, stack, retryVars, net, listing, pageVars, yielded, limit>>
    /\ UNCHANGED <<msgVars, routeVars>>

\* ------------------------------------------------------- pure projections
\* the text test of lines 205 and 375
IsTextMime(mime) == StartsWith(mime, "text/plain") \/ StartsWith(mime, "text/html")
IsMultipart(mime) == StartsWith(mime, "multipart/")

RECURSIVE CollectInline(_, _)
\* extract_bodies' walk over the parts in visiting order: the decoded inline
\* contents of the non-multipart parts whose mimeType starts with kind
CollectInline(parts, kind) ==
    IF parts = <<>> THEN <<>>
    ELSE LET p == Head(parts)
             mime == p.mimeType
             b64 == Get(p.body, "data", "")
             own == IF b64 # "" /\ ~IsMultipart(mime)
                       /\ (IF kind = "text/plain"
                           THEN StartsWith(mime, "text/plain")
                           ELSE ~StartsWith(mime, "text/plain") /\ StartsWith(mime, "text/html"))
                    THEN <<B64Decode(b64)>> ELSE <<>>
         IN own \o CollectInline(Tail(parts), kind)
\* extract_bodies: (text, html)
ExtractBodies(payload) ==
    [text |-> JoinedOrNone(CollectInline(Preorder(payload), "text/plain")),
     html |-> JoinedOrNone(CollectInline(Preorder(payload), "text/html"))]

\* a dict as the sequence of its entries in insertion order: assigning to a
\* key that is there replaces the value in place, a new key goes to the end
DictSet(d, k, v) ==
    IF \E i \in 1..Len(d) : d[i].name = k
    THEN [i \in 1..Len(d) |-> IF d[i].name = k THEN [name |-> k, value |-> v] ELSE d[i]]
    ELSE Append(d, [name |-> k, value |-> v])
RECURSIVE HeadersToMap(_)
\* _headers_to_map: the dict comprehension over the header list
HeadersToMap(headers) ==
    IF headers = <<>> THEN <<>>
    ELSE LET h == headers[Len(headers)]
         IN DictSet(HeadersToMap(SubSeq(headers, 1, Len(headers) - 1)), h.name, h.value)
\* _pick: the value of the first key of the dict equal to name in lower case
Pick(hmap, name) ==
    IF \E i \in 1..Len(hmap) : Lower(hmap[i].name) = Lower(name)
    THEN hmap[CHOOSE i \in 1..Len(hmap) :
                /\ Lower(hmap[i].name) = Lower(name)
                /\ \A j \in 1..(i - 1) : Lower(hmap[j].name) # Lower(name)].value
    ELSE None

\* int(str): blanks around an optionally signed, non-empty run of digits
IsDigit(c) == c \in {"0", "1", "2", "3", "4", "5", "6", "7", "8", "9"}
DigitValue(c) ==
    CASE c = "0" -> 0 [] c = "1" -> 1 [] c = "2" -> 2 [] c = "3" -> 3 [] c = "4" -> 4
      [] c = "5" -> 5 [] c = "6" -> 6 [] c = "7" -> 7 [] c = "8" -> 8 [] c = "9" -> 9
RECURSIVE Strip(_)
Strip(chars) ==
    IF chars = <<>> THEN <<>>
    ELSE IF chars[1] = " " THEN Strip(Tail(chars))
    ELSE IF chars[Len(chars)] = " " THEN Strip(SubSeq(chars, 1, Len(chars) - 1))
    ELSE chars
RECURSIVE DigitsValue(_)
DigitsValue(digits) ==
    IF digits = <<>> THEN 0
    ELSE 10 * DigitsValue(SubSeq(digits, 1, Len(digits) - 1)) + DigitValue(digits[Len(digits)])
\* the result of int(chars): ok is FALSE where int raises ValueError
ParseInt(chars) ==
    LET str == Strip(chars)
        signed == str # <<>> /\ str[1] \in {"-", "+"}
        digits == IF signed THEN Tail(str) ELSE str
        ok == digits # <<>> /\ \A i \in 1..Len(digits) : IsDigit(digits[i])
    IN [ok |-> ok,
        value |-> IF ~ok THEN 0
                  ELSE IF signed /\ str[1] = "-" THEN 0 - DigitsValue(digits)
                  ELSE DigitsValue(digits)]
\* int(msg.get("internalDate", "0")) of lines 159 and 421: the default stands
\* in for an absent key only, and int(None) raises TypeError
InternalDateMs(msg) ==
    IF "internalDate" \notin DOMAIN msg THEN ParseInt(<<"0">>)
    ELSE IF ~msg.internalDate.some THEN [ok |-> FALSE, value |-> 0]
    ELSE ParseInt(msg.internalDate.chars)
\* building the result raises instead of returning
IntRaises(msg) == ~InternalDateMs(msg).ok

\* normalize_message, the fields read from the message root, the headers
\* picked and the bodies
NormalizeMessage(msg) ==
    LET h == HeadersToMap(Get(msg.payload, "headers", <<>>))
    IN [id |-> msg.id,
        internal_date_ms |-> InternalDateMs(msg).value,
        subject |-> Pick(h, "Subject"),
        from_ |-> Pick(h, "From"),
        body_text |-> ExtractBodies(msg.payload).text,
        body_html |-> ExtractBodies(msg.payload).html,
        headers |-> h]

\* gmail_client.py:183, the default of max_text_chars
MaxTextChars == 50000
AttachmentLikeByTypeOnly(part) ==
    LET mime == Lower(part.mimeType)
    IN ~(StartsWith(mime, "text/plain") \/ StartsWith(mime, "text/html"))
       /\ ~StartsWith(mime, "multipart/")
\* line 207
IsAttachmentLike(part) ==
    LET mime == Lower(part.mimeType)
    IN part.filename # "" \/ (~IsTextMime(mime) /\ ~IsMultipart(mime))
\* a dict without one key
Without(d, k) == [x \in (DOMAIN d) \ {k} |-> d[x]]
\* lines 209-246: the body of the copy of one part
StrippedBody(part) ==
    LET mime == Lower(part.mimeType)
        body == part.body
        b64 == Get(body, "data", "")
        decoded == B64Decode(b64)
    IN IF IsAttachmentLike(part)
       THEN ("_stripped" :> TRUE) @@ Without(body, "data")
       ELSE IF IsTextMime(mime) /\ b64 # ""
       THEN IF Len(decoded) > MaxTextChars
            THEN ("decodedText" :> SubSeq(decoded, 1, MaxTextChars)) @@ ("_decoded_len" :> Len(decoded))
                 @@ ("_truncated" :> TRUE) @@ Without(body, "data")
            ELSE ("decodedText" :> decoded) @@ ("_decoded_len" :> Len(decoded)) @@ Without(body, "data")
       ELSE body
\* lines 211-218
MetaOf(part) ==
    LET mime == Lower(part.mimeType)
    IN [filename |-> IF part.filename # "" THEN part.filename ELSE None,
        mimeType |-> part.mimeType,
        attachmentId |-> Get(part.body, "attachmentId", None),
        inline |-> part.filename = "" /\ ~IsMultipart(mime) /\ ~IsTextMime(mime)]
RECURSIVE StripPart(_)
\* _strip_attachments_preserve_meta: the copy of the tree
StripPart(part) ==
    [mimeType |-> part.mimeType, filename |-> part.filename,
     body |-> StrippedBody(part),
     parts |-> [i \in 1..Len(part.parts) |-> StripPart(part.parts[i])]]
RECURSIVE StripMeta(_)
RECURSIVE StripMetaAll(_)
\* _strip_attachments_preserve_meta: what it appends to _collect_meta; the
\* recursion of lines 198-203 runs before the append of line 220
StripMeta(part) ==
    StripMetaAll(part.parts) \o (IF IsAttachmentLike(part) THEN <<MetaOf(part)>> ELSE <<>>)
StripMetaAll(parts) ==
    IF parts = <<>> THEN <<>> ELSE StripMeta(Head(parts)) \o StripMetaAll(Tail(parts))
\* strip_message_full_keep_blobs_out with its defaults
StripMessage(msg) ==
    [id |-> msg.id, payload |-> StripPart(msg.payload),
     attachments_meta |-> StripMeta(msg.payload)]

LlmProjectionHtmlFirst(msg, text, html, prefer) ==
    LET body == IF Truthy(html) THEN html.chars
                ELSE IF Truthy(text) THEN text.chars ELSE <<>>
        format == IF Truthy(html) THEN "text/html" ELSE "text/plain"
    IN [id |-> msg.id, internal_date_ms |-> 0, date |-> None, from |-> None,
        subject |-> None, body |-> body, body_format |-> format, body_chars |-> Len(body)]
\* lines 414-428: the projection built from the message and the two bodies
LlmProjection(msg, text, html, prefer) ==
    LET body == IF prefer /\ Truthy(text) THEN text.chars
                ELSE IF Truthy(html) THEN html.chars
                ELSE IF Truthy(text) THEN text.chars
                ELSE <<>>
        format == IF prefer /\ Truthy(text) THEN "text/plain"
                  ELSE IF Truthy(html) THEN "text/html" ELSE "text/plain"
        h == HeadersToMap(Get(msg.payload, "headers", <<>>))
    IN [id |-> msg.id, internal_date_ms |-> InternalDateMs(msg).value,
        date |-> Pick(h, "Date"), from |-> Pick(h, "From"), subject |-> Pick(h, "Subject"),
        body |-> body, body_format |-> format, body_chars |-> Len(body)]

\* --------------------------------------------------------- fetch_message_full
\* lines 108-110
FetchFullGet ==
    /\ pc = "fm_get"
    /\ EnterBackoff("detail", DefaultMaxRetries, "fm_check")
    /\ UNCHANGED <<op, outcome, listing, pageVars, yielded, streamVars, msgVars, routeVars>>

\* lines 111-112, and what the caller does with the message: the projections
\* without network calls are yielded at once (lines 297-304, 321-322), the
\* LLM projection sets out on the attachment-aware walk (lines 405-411)
FetchFullCheck ==
    /\ pc = "fm_check"
    /\ IF IsErrorStatus(resp.status)
       THEN /\ pc' = RaiseTarget
            /\ outcome' = [kind |-> "raised", value |-> resp]
            /\ UNCHANGED <<full, nodes, yielded>>
       ELSE /\ full' = resp.body
            /\ IF op \in LlmOps
               THEN /\ nodes' = Preorder(resp.body.payload)
                    /\ pc' = "ab_walk"
                    /\ UNCHANGED <<yielded, outcome>>
               ELSE IF op = "iter_messages_normalized" /\ IntRaises(resp.body)
               THEN /\ pc' = RaiseTarget
                    /\ outcome' = [kind |-> "raised", value |-> resp]
                    /\ UNCHANGED <<nodes, yielded>>
               ELSE /\ UNCHANGED outcome
                    /\ yielded' = Append(yielded,
                                         IF op = "iter_messages_normalized"
                                         THEN NormalizeMessage(resp.body)
                                         ELSE StripMessage(resp.body))
                    /\ pc' = "consumer"
                    /\ UNCHANGED nodes
    /\ widx' = 0
    /\ txts' = <<>>
    /\ htmls' = <<>>
    /\ att_log' = <<>>
    /\ UNCHANGED <<op, stack, retryVars, net, listing, pageVars, streamVars>>
    /\ UNCHANGED <<prefer_plain, msg_id, routeVars>>

\* ---------------------------------------------- extract_bodies_attachment_aware
\* lines 356-358: what fetch_attachment_data_b64 makes of the response ("" for
\* None)
AttachmentResult(r) == IF r.status = 200 THEN Get(r.body, "data", "") ELSE ""

\* lines 378-383: a part's content joins the list of its kind
CollectPart(mime, b64) ==
    IF b64 = ""
    THEN UNCHANGED <<txts, htmls>>
    ELSE IF StartsWith(mime, "text/plain")
    THEN txts' = Append(txts, B64Decode(b64)) /\ UNCHANGED htmls
    ELSE htmls' = Append(htmls, B64Decode(b64)) /\ UNCHANGED txts

\* the projection of lines 392-428 reaches the caller of fetch_llm_projection:
\* the caller of the operation, the consumer of iter_llm_projection (line 441),
\* or summarize_email (routes.py:54, 57-58); a direct caller of
\* extract_bodies_attachment_aware receives the pair of line 395
DeliverProjection ==
    LET proj == LlmProjection(full, JoinedOrNone(txts), JoinedOrNone(htmls), prefer_plain)
    IN IF op = "extract_bodies_attachment_aware"
       THEN /\ yielded' = Append(yielded, [text |-> JoinedOrNone(txts),
                                           html |-> JoinedOrNone(htmls)])
            /\ pc' = "done"
            /\ outcome' = [kind |-> "returned", value |-> None]
       ELSE IF IntRaises(full)
       THEN /\ pc' = RaiseTarget
            /\ outcome' = [kind |-> "raised", value |-> resp]
            /\ UNCHANGED yielded
       ELSE /\ yielded' = Append(yielded, proj)
            /\ IF op = "fetch_llm_projection"
               THEN /\ pc' = "done"
                    /\ outcome' = [kind |-> "returned", value |-> proj]
               ELSE /\ pc' = IF op = "summarize_email" THEN "se_summarize" ELSE "consumer"
                    /\ UNCHANGED outcome

\* lines 369-390, one part per step in the order of the recursion: a text
\* part without inline data and with an attachmentId waits for its fetch
WalkPart ==
    /\ pc = "ab_walk"
    /\ IF widx = Len(nodes)
       THEN /\ DeliverProjection
            /\ UNCHANGED <<stack, retryVars, net, widx, txts, htmls>>
       ELSE LET p == nodes[widx + 1]
                mime == Lower(p.mimeType)
                b64 == Get(p.body, "data", "")
            IN IF ~IsMultipart(mime) /\ IsTextMime(mime)
                  /\ b64 = "" /\ Get(p.body, "attachmentId", "") # ""
               THEN /\ EnterBackoff("attach", DefaultMaxRetries, "ab_att")
                    /\ UNCHANGED <<widx, txts, htmls, yielded, outcome>>
               ELSE /\ IF ~IsMultipart(mime) /\ IsTextMime(mime)
                       THEN CollectPart(mime, b64)
                       ELSE UNCHANGED <<txts, htmls>>
                    /\ widx' = widx + 1
                    /\ pc' = "ab_walk"
                    /\ UNCHANGED <<stack, retryVars, net, yielded, outcome>>
    /\ UNCHANGED <<op, listing, pageVars, streamVars>>
    /\ UNCHANGED <<prefer_plain, msg_id, full, nodes, att_log, routeVars>>

\* lines 377-383 after the attachment fetch returned
WalkAttachment ==
    /\ pc = "ab_att"
    /\ att_log' = Append(att_log, resp.status)
    /\ CollectPart(Lower(nodes[widx + 1].mimeType), AttachmentResult(resp))
    /\ widx' = widx + 1
    /\ pc' = "ab_walk"
    /\ UNCHANGED <<op, stack, outcome, retryVars, net, listing, pageVars, yielded, streamVars>>
    /\ UNCHANGED <<prefer_plain, msg_id, full, nodes, routeVars>>

\* the ids a caller asks for by id
RequestIds == {ItemId(1, 1), ItemId(1, 2), ItemId(2, 1), ItemId(2, 2), ItemId(3, 1)}

\* a direct call of fetch_llm_projection
CallFetchLlmProjection ==
    /\ pc = "idle"
    /\ op' = "fetch_llm_projection"
    /\ \E i \in RequestIds : ResetReader(i, NoParams)
    /\ \E b \in BOOLEAN : prefer_plain' = b
    /\ pc' = "fm_get"
    /\ UNCHANGED <<stack, retryVars, listing, limit, routeVars>>

\* ---------------------------------------------------- get_profile_history_id
\* line 331
CallGetProfileHistoryId ==
    /\ pc = "idle"
    /\ op' = "get_profile_history_id"
    /\ outcome' = NoOutcome
    /\ EnterBackoff("profile", DefaultMaxRetries, "ph_check")
    /\ UNCHANGED <<listing, pageVars, yielded, streamVars, msgVars, routeVars>>

\* lines 332-334
ProfileCheck ==
    /\ pc = "ph_check"
    /\ outcome' = [kind |-> "returned",
                   value |-> IF resp.status = 200 THEN Get(resp.body, "historyId", None) ELSE None]
    /\ pc' = "done"
    /\ UNCHANGED <<op, stack, retryVars, net, listing, pageVars, yielded, streamVars>>
    /\ UNCHANGED <<msgVars, routeVars>>

\* ------------------------------------------------------------- the session
\* gmail_client.py:36
REQUIRED_SCOPE == "https://www.googleapis.com/auth/gmail.readonly"
\* a scope string is the sequence of its words and of the blanks between them
ScopeFull == <<"openid", " ", "email", " ", REQUIRED_SCOPE>>
ScopeBasic == <<"openid", " ", "email">>
ScopeStrings == {ScopeFull, ScopeBasic, <<>>}
\* str.split(): the words of a string
Split(str) == SelectSeq(str, LAMBDA w : w # " ")
\* the tokens the authorization-code exchange can end with
OAuthTokens == [scope : ScopeStrings, userinfo : BOOLEAN]

\* auth_callback (auth_gmail/routes.py:22-56): the exchange raises, or gives a
\* token without userinfo, or the session takes user, token and scopes
AuthCallback ==
    /\ pc = "idle"
    /\ op' = "auth_callback"
    /\ \E raised \in BOOLEAN, token \in OAuthTokens :
         IF raised
         THEN /\ http' = [status |-> 401, detail |-> "Google authentication failed"]
              /\ UNCHANGED session
         ELSE IF ~token.userinfo
         THEN /\ http' = [status |-> 307, detail |-> "/auth_error?reason=missing_userinfo"]
              /\ UNCHANGED session
         ELSE /\ session' = ("user" :> "u") @@ ("token" :> token)
                              @@ ("granted_scopes" :> token.scope) @@ session
              /\ http' = [status |-> 307, detail |-> "/success"]
    /\ UNCHANGED <<pc, stack, outcome, retryVars, net, listing, pageVars, yielded>>
    /\ UNCHANGED <<streamVars, msgVars, req, state_token, client, closes, llm_calls, llm_log>>

LogoutKeepsToken ==
    /\ pc = "idle"
    /\ op' = "logout"
    /\ session' = Without(session, "user")
    /\ http' = [status |-> 307, detail |-> "/"]
    /\ UNCHANGED <<pc, stack, outcome, retryVars, net, listing, pageVars, yielded>>
    /\ UNCHANGED <<streamVars, msgVars, req, state_token, client, closes, llm_calls, llm_log>>
\* logout (auth_gmail/routes.py:84-87)
Logout ==
    /\ pc = "idle"
    /\ op' = "logout"
    /\ session' = EmptyDict
    /\ http' = [status |-> 307, detail |-> "/"]
    /\ UNCHANGED <<pc, stack, outcome, retryVars, net, listing, pageVars, yielded>>
    /\ UNCHANGED <<streamVars, msgVars, req, state_token, client, closes, llm_calls, llm_log>>

\* ------------------------------------------------------ require_gmail_auth
\* line 38: the session's token, EmptyDict (falsy) without one
SessionToken(s) ==
    IF Get(s, "token", EmptyDict) # EmptyDict
    THEN s["token"] ELSE Get(s, "oauth_token", EmptyDict)
\* lines 42-43
SessionScopes(s) ==
    LET token == SessionToken(s)
        scopes_str == IF Get(token, "scope", <<>>) # <<>> THEN token.scope
                      ELSE Get(s, "granted_scopes", <<>>)
    IN Split(scopes_str)
\* line 44
ScopeInList(scopes) == \E i \in 1..Len(scopes) : scopes[i] = REQUIRED_SCOPE
ScopeNotChecked(scopes) == TRUE
HasRequiredScope(scopes) == ScopeInList(scopes)
\* the status require_gmail_auth raises with, 0 when it returns True
GuardStatus(s) ==
    IF SessionToken(s) = EmptyDict THEN 401
    ELSE IF ~HasRequiredScope(SessionScopes(s)) THEN 403
    ELSE 0

\* ------------------------------------------------------------ summarize_email
\* the requests: a message id or none (then the first match of the query)
Requests == [id : {NoId} \cup RequestIds, prefer_plain : BOOLEAN]
NoHttp == [status |-> 0, detail |-> ""]

\* the dependency of routes.py:15, then routes.py:39-60 up to the first
\* network call: the guard, the client, and the choice between id and query
SummarizeEmail ==
    /\ pc = "idle"
    /\ op' = "summarize_email"
    /\ \E r \in Requests :
        /\ req' = r
        /\ prefer_plain' = r.prefer_plain
        /\ ResetReader(r.id, IF r.id # NoId THEN NoParams ELSE ListParams)
        /\ limit' = 1
        /\ llm_calls' = 0
        /\ llm_log' = <<>>
        /\ closes' = 0
        /\ IF GuardStatus(session) # 0
           THEN /\ http' = [status |-> GuardStatus(session),
                            detail |-> IF GuardStatus(session) = 401
                                       THEN "Sign in required"
                                       ELSE "Missing gmail.readonly scope"]
                /\ pc' = "idle"
                /\ client' = "none"
                /\ UNCHANGED <<state_token, listing>>
           ELSE /\ state_token' = SessionToken(session)
                /\ client' = "open"
                /\ http' = NoHttp
                /\ \E l \in Listings :
                     /\ r.id # NoId => l = <<0>>
                     /\ listing' = l
                /\ pc' = IF r.id # NoId THEN "fm_get" ELSE "pg_get"
    /\ UNCHANGED <<stack, retryVars, session>>

\* str.strip() leaves nothing
IsBlank(chars) == \A i \in 1..Len(chars) : chars[i] \in {" ", "\n", "\t"}

\* routes.py:62-100: the summary of the body, with one chat-completion call
\* unless the body is blank; the call returns or raises
Summarize ==
    /\ pc = "se_summarize"
    /\ LET email_data == yielded[Len(yielded)]
       IN IF IsBlank(email_data.body)
          THEN /\ outcome' = [kind |-> "returned", value |-> email_data.id]
               /\ UNCHANGED <<llm_calls, llm_log>>
          ELSE /\ llm_calls' = llm_calls + 1
               /\ \E ok \in BOOLEAN :
                    /\ llm_log' = Append(llm_log, [body |-> email_data.body, raised |-> ~ok])
                    /\ outcome' = IF ok THEN [kind |-> "returned", value |-> email_data.id]
                                  ELSE [kind |-> "http_exception", value |-> 502]
    /\ pc' = "se_finally"
    /\ UNCHANGED <<op, stack, retryVars, net, listing, pageVars, yielded, streamVars>>
    /\ UNCHANGED <<msgVars, session, req, state_token, client, closes, http>>

\* the locals of the request's frames are gone once the response is produced
RequestLocalsDropped ==
    /\ max_retries' = 0
    /\ attempt' = 0
    /\ resp' = NoResp
    /\ log' = <<>>
    /\ sleeps' = 0
    /\ url' = "any"
    /\ listing' = <<0>>
    /\ params' = NoParams
    /\ caller_params' = NoParams
    /\ data' = ErrorBody(0)
    /\ idx' = 0
    /\ served' = <<>>
    /\ yielded' = <<>>
    /\ msg_id' = NoId
    /\ full' = NoMessage
    /\ nodes' = <<>>
    /\ widx' = 0
    /\ txts' = <<>>
    /\ htmls' = <<>>
    /\ att_log' = <<>>

\* the status of the response the framework sends: 200 with the payload, the
\* status of the HTTPException raised, 500 for any other exception
UnhandledIsBadGateway(o) ==
    CASE o.kind = "returned" -> 200
      [] o.kind = "http_exception" -> o.value
      [] OTHER -> 502
ResponseStatus(o) ==
    CASE o.kind = "returned" -> 200
      [] o.kind = "http_exception" -> o.value
      [] OTHER -> 500

\* routes.py:102-103, and the response that leaves the route
Finally ==
    /\ pc = "se_finally"
    /\ client' = "closed"
    /\ closes' = closes + 1
    /\ http' = [status |-> ResponseStatus(outcome),
                 detail |-> CASE outcome.kind = "returned" -> "summary"
                              [] outcome.kind = "http_exception" ->
                                   IF outcome.value = 404
                                   THEN "No messages matched the query"
                                   ELSE "LLM call failed"
                              [] OTHER -> "Internal Server Error"]
    /\ pc' = "idle"
    /\ RequestLocalsDropped
    /\ UNCHANGED <<op, stack, outcome, net, streamVars, prefer_plain>>
    /\ UNCHANGED <<session, req, state_token, llm_calls, llm_log>>

\* ------------------------------------------- the projections as functions
\* the sequences over S of length at most n
SeqsUpTo(S, n) == UNION {[1..k -> S] : k \in 0..n}
\* header lists: names that differ in case only, repeated names, two values
HeaderLists ==
    SeqsUpTo([name : {"Subject", "subject", "From"}, value : {"A", "B"}], MaxHeaders)
\* internalDate strings: digits, blanks, a sign, a letter
DateTexts == {SomeText(c) : c \in SeqsUpTo({"1", "2", " ", "-", "x"}, MaxDateLen)}
\* leaves: text with and without inline data, one with inline data and an
\* attachmentId, a spelling in upper case, a text file, an attached file, an
\* inline image
TreeLeaves ==
    {Part("text/plain", "", "YQ", "", <<>>),
     Part("text/plain", "", "Yg", "", <<>>),
     Part("text/html", "", "PGI-aGk8L2I-", "A2", <<>>),
     Part("TEXT/PLAIN", "", "Yw", "", <<>>),
     Part("text/plain", "", "", "", <<>>),
     Part("text/plain", "note.txt", "YQ", "", <<>>),
     Part("application/pdf", "f.pdf", "AAAA", "A3", <<>>),
     Part("image/png", "", "AAAA", "", <<>>)}
\* a multipart node over the children cs: a plain one, or one that has a
\* filename and inline data of its own
Multiparts(cs) ==
    {Part("multipart/mixed", "", "", "", cs),
     Part("multipart/alternative", "m.eml", "YQ", "", cs)}
\* the trees: a leaf, or a multipart node over leaves and multipart nodes of
\* one leaf
Trees ==
    LET inner == TreeLeaves \cup UNION {Multiparts(<<l>>) : l \in TreeLeaves}
    IN TreeLeaves \cup
       UNION {Multiparts(cs) : cs \in SeqsUpTo(inner, MaxChildren) \ {<<>>}}
\* the raw messages: every header list with every internalDate (absent, null
\* or a string) over one payload, and every tree under one header list
RawMessages ==
    {[id |-> 1, payload |-> ("headers" :> hs) @@ PayloadPlain] : hs \in HeaderLists}
    \cup {[id |-> 1, internalDate |-> d, payload |-> ("headers" :> hs) @@ PayloadPlain] :
             hs \in HeaderLists, d \in DateTexts \cup {NoneText}}
    \cup {[id |-> 1, internalDate |-> SomeText(<<"1", "7">>), payload |-> t] : t \in Trees}

\* normalize_message applied to a raw message
CallNormalizeMessage ==
    /\ pc = "idle"
    /\ op' = "normalize_message"
    /\ \E msg \in RawMessages :
         /\ full' = msg
         /\ IF IntRaises(msg)
            THEN /\ outcome' = [kind |-> "raised", value |-> None]
                 /\ yielded' = <<>>
            ELSE /\ outcome' = [kind |-> "returned", value |-> None]
                 /\ yielded' = <<NormalizeMessage(msg)>>
    /\ pc' = "done"
    /\ UNCHANGED <<stack, retryVars, net, listing, pageVars, streamVars, routeVars>>
    /\ UNCHANGED <<prefer_plain, msg_id, nodes, widx, txts, htmls, att_log>>

\* strip_message_full_keep_blobs_out applied to a raw message
CallStripMessage ==
    /\ pc = "idle"
    /\ op' = "strip_message_full_keep_blobs_out"
    /\ \E t \in Trees :
         /\ full' = [id |-> 1, payload |-> t]
         /\ yielded' = <<StripMessage([id |-> 1, payload |-> t])>>
    /\ outcome' = [kind |-> "returned", value |-> None]
    /\ pc' = "done"
    /\ UNCHANGED <<stack, retryVars, net, listing, pageVars, streamVars, routeVars>>
    /\ UNCHANGED <<prefer_plain, msg_id, nodes, widx, txts, htmls, att_log>>

\* extract_bodies_attachment_aware applied to the payload of a raw message
CallExtractAware ==
    /\ pc = "idle"
    /\ op' = "extract_bodies_attachment_aware"
    /\ \E t \in Trees :
         /\ full' = [id |-> 1, payload |-> t]
         /\ nodes' = Preorder(t)
    /\ msg_id' = 1
    /\ widx' = 0
    /\ txts' = <<>>
    /\ htmls' = <<>>
    /\ att_log' = <<>>
    /\ yielded' = <<>>
    /\ net' = NoNet
    /\ outcome' = NoOutcome
    /\ pc' = "ab_walk"
    /\ UNCHANGED <<stack, retryVars, listing, pageVars, streamVars, prefer_plain, routeVars>>

\* the contents the walk can leave in a list: decoded parts, empty ones too
WalkResults == SeqsUpTo({<<>>, <<"a">>, <<"b", "c">>}, MaxChildren)

\* fetch_llm_projection from line 392 on, applied to what the walk collected
ProjectWalked ==
    /\ pc = "idle"
    /\ op' = "fetch_llm_projection"
    /\ \E t \in WalkResults, h \in WalkResults, b \in BOOLEAN :
         /\ txts' = t
         /\ htmls' = h
         /\ prefer_plain' = b
         /\ full' = Mailbox(ItemId(2, 1))
         /\ yielded' = <<LlmProjection(Mailbox(ItemId(2, 1)), JoinedOrNone(t), JoinedOrNone(h), b)>>
    /\ outcome' = [kind |-> "returned", value |-> None]
    /\ pc' = "done"
    /\ UNCHANGED <<stack, retryVars, net, listing, pageVars, streamVars, routeVars>>
    /\ UNCHANGED <<msg_id, nodes, widx, att_log>>

\* ------------------------------------------------------------ specifications
Init ==
    /\ op = "idle"
    /\ pc = "idle"
    /\ stack = <<>>
    /\ outcome = NoOutcome
    /\ max_retries = 0
    /\ attempt = 0
    /\ resp = NoResp
    /\ log = <<>>
    /\ sleeps = 0
    /\ url = "any"
    /\ net = NoNet
    /\ listing = <<0>>
    /\ params = NoParams
    /\ caller_params = NoParams
    /\ data = ErrorBody(0)
    /\ idx = 0
    /\ served = <<>>
    /\ yielded = <<>>
    /\ limit = NoLimit
    /\ count = 0
    /\ prefer_plain = TRUE
    /\ msg_id = NoId
    /\ full = NoMessage
    /\ nodes = <<>>
    /\ widx = 0
    /\ txts = <<>>
    /\ htmls = <<>>
    /\ att_log = <<>>
    /\ session = EmptyDict
    /\ req = [id |-> NoId, prefer_plain |-> TRUE]
    /\ state_token = EmptyDict
    /\ client = "none"
    /\ closes = 0
    /\ llm_calls = 0
    /\ llm_log = <<>>
    /\ http = NoHttp

BackoffSteps == BackoffRequest \/ BackoffSleep \/ BackoffRaise
PaginateSteps == PaginateGet \/ PaginateRead \/ PaginateNext
MessageSteps == FetchFullGet \/ FetchFullCheck
WalkSteps == WalkPart \/ WalkAttachment

\* one direct call of the retried GET
NextRetry == CallBackoffGet \/ BackoffSteps \/ TopReturn
SpecRetry == Init /\ [][NextRetry]_vars

\* one walk of the page walker by a consumer that may stop
NextPages ==
    \/ CallPaginate
    \/ CallIterHistoryPages
    \/ PaginateSteps
    \/ ConsumerPull
    \/ ConsumerStop
    \/ BackoffSteps
SpecPages == Init /\ [][NextPages]_vars

\* one streaming projection with a limit, consumed by a consumer that may stop
NextStream ==
    \/ CallIter
    \/ PaginateSteps
    \/ MessageSteps
    \/ WalkSteps
    \/ IterResume
    \/ ConsumerPull
    \/ ConsumerStop
    \/ BackoffSteps
SpecStream == Init /\ [][NextStream]_vars

\* one call of a single-message reader
NextReader ==
    \/ CallFetchLlmProjection
    \/ CallGetProfileHistoryId
    \/ ProfileCheck
    \/ MessageSteps
    \/ WalkSteps
    \/ BackoffSteps
SpecReader == Init /\ [][NextReader]_vars

\* the projections applied to raw messages, trees and walk results
NextPure ==
    \/ CallNormalizeMessage
    \/ CallStripMessage
    \/ ProjectWalked
    \/ CallExtractAware
    \/ WalkPart
SpecPure == Init /\ [][NextPure]_vars

\* the web application: callbacks, logouts and guarded requests on a session
NextRoute ==
    \/ AuthCallback
    \/ Logout
    \/ SummarizeEmail
    \/ Summarize
    \/ Finally
    \/ PaginateSteps
    \/ MessageSteps
    \/ WalkSteps
    \/ BackoffSteps
Spec == Init /\ [][NextRoute]_vars

\* ======================================================================
\* Claims about the retried GET, checked under SpecRetry
\* ======================================================================
Last(q) == q[Len(q)]
ClaimedTransient == {429, 500, 502, 503}
AllTransient(q) == \A i \in 1..Len(q) : q[i] \in ClaimedTransient

\* C1: one call of the retried GET issues at most maxRetries+1 requests, and
\* every request after the first follows a response whose status is in
\* {429, 500, 502, 503}.
C1_RetryBudget ==
    /\ Len(log) <= max_retries + 1
    /\ \A i \in 1..(Len(log) - 1) : log[i] \in ClaimedTransient

\* a call that used its whole budget: maxRetries+1 >= 3 requests were issued
C1_Witness ==
    /\ op = "backoff_get" /\ pc = "done"
    /\ max_retries >= 2 /\ Len(log) = max_retries + 1

\* C2: when the first k responses are transient and response k+1 is not,
\* exactly k+1 requests are issued and the call returns response k+1 as a
\* value (never raised), whatever its status.
C2_FirstNonTransientReturned ==
    op = "backoff_get" =>
        /\ \A j \in 1..Len(log) : log[j] \notin ClaimedTransient => j = Len(log)
        /\ (log # <<>> /\ Last(log) \notin ClaimedTransient) =>
              /\ pc \in {"top_return", "done"}
              /\ outcome.kind # "raised"
              /\ pc = "done" =>
                    /\ outcome.kind = "returned"
                    /\ outcome.value.seq = Len(log)
                    /\ outcome.value.status = Last(log)

\* 503, 503, 200: exactly three requests, and the 200 response returned
C2_Witness ==
    /\ op = "backoff_get" /\ pc = "done"
    /\ log = <<503, 503, 200>>
    /\ outcome = [kind |-> "returned", value |-> [status |-> 200, seq |-> 3, body |-> None]]

\* C3: when all maxRetries+1 responses are transient the call raises the
\* HTTP error of the final response, and a returned response is never a
\* transient one.
C3_ExhaustedRaises ==
    (op = "backoff_get" /\ pc = "done") =>
        /\ (Len(log) = max_retries + 1 /\ AllTransient(log)) =>
              /\ outcome.kind = "raised"
              /\ outcome.value.seq = max_retries + 1
              /\ outcome.value.status = Last(log)
        /\ outcome.kind = "returned" => outcome.value.status \notin ClaimedTransient

\* budget of 2 retries used up by 503, 500, 429
C3_Witness ==
    /\ op = "backoff_get" /\ pc = "done"
    /\ max_retries = 2 /\ log = <<503, 500, 429>>
    /\ outcome.kind = "raised" /\ outcome.value.status = 429

\* ======================================================================
\* Claims about the Page Walker, checked under SpecPages
\* ======================================================================
RECURSIVE ConcatTo(_, _)
\* the concatenation of f(1), ..., f(n)
ConcatTo(f, n) == IF n = 0 THEN <<>> ELSE ConcatTo(f, n - 1) \o f[n]
\* the message array a page body carries (empty when it carries none)
BodyMessages(b) == IF "messages" \in DOMAIN b THEN b.messages ELSE <<>>
CarriesToken(b) == "nextPageToken" \in DOMAIN b
ServedItems == ConcatTo([i \in 1..Len(served) |-> BodyMessages(served[i].body)], Len(served))
ListingItems(l) == ConcatTo([p \in 1..Len(l) |-> [i \in 1..l[p] |-> [id |-> 10 * p + i]]], Len(l))
AllServedOk == \A i \in 1..Len(served) : served[i].status = 200

\* C4: the items the walker yields, fully consumed, are the concatenation of
\* the pages' item arrays in arrival order then in-page order; a page is
\* followed by another request exactly when it carried a nextPageToken, so
\* the walk ends at the first page without one.
C4_PagesConcatenated ==
    op = "paginate" =>
        /\ \A i \in 1..Len(served) : i < Len(served) => CarriesToken(served[i].body)
        /\ Len(yielded) <= Len(ServedItems)
        /\ \A j \in 1..Len(yielded) : yielded[j] = ServedItems[j]
        /\ outcome.kind = "exhausted" =>
              /\ yielded = ServedItems
              /\ served # <<>>
              /\ ~CarriesToken(served[Len(served)].body)
              /\ AllServedOk => (Len(served) = Len(listing) /\ yielded = ListingItems(listing))

\* three pages of 2, 0 and 1 items walked to the end
C4_Witness ==
    /\ op = "paginate" /\ outcome.kind = "exhausted"
    /\ listing = <<2, 0, 1>>
    /\ Len(served) = 3 /\ AllServedOk
    /\ yielded = <<[id |-> 11], [id |-> 12], [id |-> 31]>>

\* ======================================================================
\* Claims about the streaming projections, checked under SpecStream
\* ======================================================================
ClaimedStreams == {"iter_llm_projection", "iter_messages_normalized", "iter_messages_full_no_blobs"}
RECURSIVE SumTo(_, _)
\* the number of ids on pages 1..p of a listing
SumTo(l, p) == IF p = 0 THEN 0 ELSE SumTo(l, p - 1) + l[p]
Min(a, b) == IF a <= b THEN a ELSE b
\* the page that holds the k-th id of a listing
PageHolding(l, k) == CHOOSE p \in 1..Len(l) : SumTo(l, p) >= k /\ SumTo(l, p - 1) < k

\* C5: with a limit n >= 0 over a listing that matches m ids, the fully
\* consumed streaming projection yields exactly min(n, m) items and performs
\* exactly min(n, m) message-detail fetches.
C5_LimitBoundsFetches ==
    (/\ op \in ClaimedStreams /\ pc = "done"
     /\ outcome.kind \in {"limit", "exhausted"}
     /\ limit >= 0 /\ AllServedOk) =>
        /\ Len(yielded) = Min(limit, SumTo(listing, Len(listing)))
        /\ net["detail"] = Min(limit, SumTo(listing, Len(listing)))

\* C6: once the consumer stops pulling, or the projection has yielded as many
\* items as its limit, nothing more is requested: the list pages requested
\* are those up to the page holding the last id yielded (not the page after
\* it, even when that id ends a page with a nextPageToken), and the detail
\* fetches are those of the ids yielded.
C6_NoRequestAfterStop ==
    (op \in ClaimedStreams /\ pc \in {"consumer", "done"}
     /\ outcome.kind \in {"none", "stopped", "limit"}) =>
        /\ Len(yielded) >= 1
        /\ outcome.kind = "limit" => Len(yielded) = limit
        /\ net["detail"] = Len(yielded)
        /\ net["list"] = PageHolding(listing, Len(yielded))

\* limit 2 over a first page of two ids that carries a nextPageToken: the
\* walk ends with one list request
C6_Witness ==
    /\ op = "iter_llm_projection" /\ pc = "done" /\ outcome.kind = "limit"
    /\ limit = 2 /\ listing = <<2, 1>>
    /\ Len(yielded) = 2 /\ net["list"] = 1 /\ net["detail"] = 2

\* ======================================================================
\* Claims about the guarded route, checked under Spec
\* ======================================================================
\* the session holds a credential
HoldsCredential == "token" \in DOMAIN session
\* the credential's scope list names gmail.readonly
ScopeListed ==
    \E i \in 1..Len(session["token"].scope) :
        session["token"].scope[i] = "https://www.googleapis.com/auth/gmail.readonly"
NothingFetched == net = NoNet /\ llm_calls = 0 /\ client = "none" /\ pc = "idle"

\* C7: a guarded request issues no Gmail request unless the session holds a
\* credential whose scope list contains gmail.readonly: without a credential
\* it ends with 401, with a credential lacking the scope with 403, in both
\* cases without any reader call or LLM call.
C7_GuardShortCircuits ==
    op = "summarize_email" =>
        /\ ~HoldsCredential => (http.status = 401 /\ NothingFetched)
        /\ (HoldsCredential /\ ~ScopeListed) => (http.status = 403 /\ NothingFetched)
        /\ ~NothingFetched => (HoldsCredential /\ ScopeListed)

\* a request on a session whose credential lacks the scope, rejected with 403
C7_Witness ==
    /\ op = "summarize_email" /\ HoldsCredential /\ ~ScopeListed
    /\ http.status = 403

\* C8: when a message-list page request ends with a non-transient non-2xx
\* status the listing fails with that remote error, so the request never
\* ends as EmptyResultSet (404, no messages matched) for a failed listing.
C8_FailedListingPropagates ==
    (/\ op = "summarize_email" /\ pc = "se_finally"
     /\ \E i \in 1..Len(served) : served[i].status \notin 200..299) =>
        /\ outcome.kind = "raised"
        /\ outcome.kind # "http_exception"

\* ======================================================================
\* Claims about the single-message readers, checked under SpecReader
\* ======================================================================
\* C9: when an attachment fetch needed for a text leaf ends with a non-200
\* status, fetchLlmProjection fails with that remote error and returns no
\* projection.
C9_AttachmentFailurePropagates ==
    (/\ op = "fetch_llm_projection" /\ pc = "done"
     /\ \E i \in 1..Len(att_log) : att_log[i] # 200) =>
        outcome.kind = "raised"

\* C10: getProfileHistoryId returns the history cursor after a 200 and none
\* after any other outcome, the exhausted retry budget included; it never
\* raises.
C10_ProfileNeverRaises ==
    (op = "get_profile_history_id" /\ pc = "done") =>
        /\ outcome.kind = "returned"
        /\ outcome.value = (IF Last(log) = 200 THEN "h7" ELSE None)

\* ======================================================================
\* Claims about the summarization step, checked under Spec
\* ======================================================================
\* the request fetched its projection and went on to the summarization step
ReachedSummarization == op = "summarize_email" /\ pc = "se_finally" /\ yielded # <<>>
\* the request has ended and its response is out
RequestEnded == op = "summarize_email" /\ pc = "idle" /\ client = "closed"
LlmRaised == llm_log # <<>> /\ llm_log[Len(llm_log)].raised

\* C11: every request whose projection was fetched makes exactly one
\* chat-completion call, whatever the extracted body is, and the call's input
\* is that body.
C11_LlmCalledOnce ==
    ReachedSummarization =>
        /\ llm_calls = 1
        /\ Len(llm_log) = 1
        /\ llm_log[1].body = yielded[Len(yielded)].body

\* C12: a request whose chat-completion call raised ends with 502 and never
\* with the success payload; a request ends with 502 only when that call
\* raised, and a request that a Gmail fetch failure ended does not end with 502.
C12_SummarizationFailureDistinct ==
    RequestEnded =>
        /\ LlmRaised => (http.status = 502 /\ http.detail # "summary")
        /\ http.status = 502 => LlmRaised
        /\ outcome.kind = "raised" => (http.status # 502 /\ llm_calls = 0)

\* a request by id ended by a raising chat-completion call, and answered 502
C12_Witness ==
    /\ RequestEnded /\ LlmRaised /\ req.id # 0
    /\ net["detail"] = 1 /\ http.status = 502

\* ======================================================================
\* Claims about the projections as functions, checked under SpecPure
\* ======================================================================
Normalized == op = "normalize_message" /\ pc = "done" /\ outcome.kind = "returned"
\* two header names equal but for the case of their letters
SubjectSpellings == {"Subject", "subject", "SUBJECT"}
SameName(a, b) == a = b \/ (a \in SubjectSpellings /\ b \in SubjectSpellings)
\* the value of the first entry of a header list whose name is the one asked
FirstMatch(hs, name) ==
    IF \E i \in 1..Len(hs) : SameName(hs[i].name, name)
    THEN hs[CHOOSE i \in 1..Len(hs) :
              /\ SameName(hs[i].name, name)
              /\ \A j \in 1..(i - 1) : ~SameName(hs[j].name, name)].value
    ELSE "None"

\* the header list of a message, empty when the payload has none
HeaderList(msg) == IF "headers" \in DOMAIN msg.payload THEN msg.payload.headers ELSE <<>>

\* C13: the header lookup of normalizeMessage returns the value of the first
\* entry in list order whose name equals the requested name but for case, none
\* without such an entry, also when several entries have the identical name.
C13_FirstMatchWins ==
    Normalized =>
        /\ yielded[1].subject = FirstMatch(HeaderList(full), "Subject")
        /\ yielded[1].from_ = FirstMatch(HeaderList(full), "From")

\* the integer an internalDate string denotes, 0 when it denotes none
DateOrZero(msg) ==
    IF "internalDate" \notin DOMAIN msg THEN 0
    ELSE IF ~msg.internalDate.some THEN 0
    ELSE IF ParseInt(msg.internalDate.chars).ok THEN ParseInt(msg.internalDate.chars).value
    ELSE 0

\* C14: normalizeMessage never fails because of internalDate: internal_date_ms
\* is the integer parsed from it, and 0 when it is absent, null or unparseable.
C14_InternalDateNeverFails ==
    (op = "normalize_message" /\ pc = "done") =>
        /\ outcome.kind = "returned"
        /\ yielded[1].internal_date_ms = DateOrZero(full)

\* the media type a mimeType string names, whatever its spelling
MediaType(mime) ==
    CASE mime \in {"text/plain", "TEXT/PLAIN", "text/plain; charset=utf-8"} -> "text/plain"
      [] mime = "text/html" -> "text/html"
      [] mime \in {"multipart/mixed", "multipart/alternative"} -> "multipart"
      [] OTHER -> "other"
HasInlineData(node) == "data" \in DOMAIN node.body
RECURSIVE JoinedContents(_)
\* the decoded contents of a sequence of nodes joined by newlines
JoinedContents(ns) ==
    IF Len(ns) = 1 THEN B64Decode(ns[1].body.data)
    ELSE B64Decode(ns[1].body.data) \o <<"\n">> \o JoinedContents(Tail(ns))
\* the body of a media type: none without a node of the type that carries
\* inline data, else the contents of those nodes in pre-order
BodyOfType(tree, type) ==
    LET ns == SelectSeq(Preorder(tree),
                        LAMBDA n : MediaType(n.mimeType) = type /\ HasInlineData(n))
    IN IF ns = <<>> THEN [some |-> FALSE, chars |-> <<>>]
       ELSE [some |-> TRUE, chars |-> JoinedContents(ns)]

\* C15: extractBodies returns body_text = none exactly when no non-multipart
\* text/plain node carries inline data, body_html likewise for text/html;
\* otherwise each body is the newline-joined content of those nodes in
\* depth-first pre-order, multipart nodes contributing through their children
\* only.
C15_BodiesFromInlineLeaves ==
    Normalized =>
        /\ yielded[1].body_text = BodyOfType(full.payload, "text/plain")
        /\ yielded[1].body_html = BodyOfType(full.payload, "text/html")

\* a node with a filename, or neither text nor multipart
AttachmentLikeNode(node) == node.filename # "" \/ MediaType(node.mimeType) = "other"
Stripped == op = "strip_message_full_keep_blobs_out" /\ pc = "done"

\* C16: in the attachment-stripping copy no attachment-like node keeps a data
\* field, each has body._stripped = true, and attachments_meta has as many
\* records as the tree has attachment-like nodes.
C16_AttachmentsStripped ==
    Stripped =>
        LET before == Preorder(full.payload)
            after == Preorder(yielded[1].payload)
        IN /\ Len(after) = Len(before)
           /\ \A i \in 1..Len(before) :
                 AttachmentLikeNode(before[i]) =>
                    /\ "data" \notin DOMAIN after[i].body
                    /\ "_stripped" \in DOMAIN after[i].body
                    /\ after[i].body["_stripped"] = TRUE
           /\ Len(yielded[1].attachments_meta)
                 = Cardinality({i \in 1..Len(before) : AttachmentLikeNode(before[i])})

\* a multipart node with a filename over a text file and an attached file,
\* all three with inline data: three records, no data left
C16_Witness ==
    /\ Stripped
    /\ full.payload = Part("multipart/alternative", "m.eml", "YQ", "",
                            <<Part("text/plain", "note.txt", "YQ", "", <<>>),
                              Part("application/pdf", "f.pdf", "AAAA", "A3", <<>>)>>)
    /\ Len(yielded[1].attachments_meta) = 3
    /\ yielded[1].payload.parts[1].body = [_stripped |-> TRUE]

\* the text a list of collected contents makes: the contents joined by
\* newlines, no text without contents
RECURSIVE JoinedChunks(_)
JoinedChunks(chunks) ==
    IF chunks = <<>> THEN <<>>
    ELSE IF Len(chunks) = 1 THEN chunks[1]
    ELSE chunks[1] \o <<"\n">> \o JoinedChunks(Tail(chunks))
\* a body is present when it has content
TextPresent == JoinedChunks(txts) # <<>>
HtmlPresent == JoinedChunks(htmls) # <<>>
Projected == op = "fetch_llm_projection" /\ pc = "done" /\ outcome.kind = "returned"

\* C17: fetchLlmProjection chooses body and body_format together: the text
\* when preferPlain and text is present, else the html when present, else the
\* text when present, else the empty string; body_format is text/html exactly
\* when the body chosen is the html, text/plain otherwise; body_chars is the
\* length of the body in characters.
C17_BodyChoice ==
    Projected =>
        LET p == yielded[Len(yielded)]
            choice == IF prefer_plain /\ TextPresent THEN "text"
                      ELSE IF HtmlPresent THEN "html"
                      ELSE IF TextPresent THEN "text" ELSE "empty"
        IN /\ p.body = CASE choice = "text" -> JoinedChunks(txts)
                          [] choice = "html" -> JoinedChunks(htmls)
                          [] OTHER -> <<>>
           /\ p.body_format = "text/html" <=> choice = "html"
           /\ p.body_format = "text/plain" <=> choice \in {"text", "empty"}
           /\ p.body_chars = Len(p.body)

\* html preferred, an empty text and an html of two parts: the html is chosen
C17_Witness ==
    /\ Projected /\ net = NoNet
    /\ ~prefer_plain /\ txts = << <<>> >> /\ htmls = << <<"a">>, <<"b", "c">> >>
    /\ yielded[1].body = <<"a", "\n", "b", "c">>
    /\ yielded[1].body_format = "text/html" /\ yielded[1].body_chars = 4

\* ======================================================================
\* Further claims about the Page Walker, checked under SpecPages
\* ======================================================================
\* the raw pages read so far, in arrival order
PagesRead == [i \in 1..Len(served) |-> served[i].body]

\* C18: iterHistoryPages yields one element per server page of the history
\* list, each the raw page as the server returned it (not the history
\* records inside it), in page-arrival order.
C18_HistoryYieldsRawPages ==
    op = "iter_history_pages" =>
        /\ Len(yielded) <= Len(served)
        /\ \A i \in 1..Len(yielded) : yielded[i] = served[i].body
        /\ outcome.kind = "exhausted" => yielded = PagesRead

\* the params the caller of the walker passed when the walk began
ParamsPassed ==
    IF op = "iter_history_pages"
    THEN [startHistoryId |-> "h7", historyTypes |-> "messageAdded,messageDeleted",
          maxResults |-> 1000]
    ELSE [maxResults |-> 500]
\* the params a request for the page after a page of body b has to carry
ParamsAfter(b) == ("pageToken" :> b.nextPageToken) @@ ParamsPassed

\* C19: the first page request carries the caller's params without a page
\* token, every later one the same params with pageToken set to the
\* nextPageToken of the page read just before it; the caller's params mapping
\* stays as it was passed.
C19_TokenOfPrecedingPage ==
    op \in {"paginate", "iter_history_pages"} =>
        /\ caller_params = ParamsPassed
        /\ "pageToken" \notin DOMAIN caller_params
        /\ \A i \in 1..Len(served) :
              IF i = 1 THEN served[i].asked = ParamsPassed
              ELSE /\ CarriesToken(served[i - 1].body)
                   /\ served[i].asked = ParamsAfter(served[i - 1].body)
        /\ pc \in {"pg_get", "bg_get", "bg_sleep", "bg_raise", "pg_read"} =>
              IF served = <<>> THEN params = ParamsPassed
              ELSE /\ CarriesToken(served[Len(served)].body)
                   /\ params = ParamsAfter(served[Len(served)].body)

\* three pages walked to the end: the third request carried the token of
\* the second page, and the caller's params have no token
C19_Witness ==
    /\ op = "paginate" /\ outcome.kind = "exhausted"
    /\ Len(served) = 3 /\ AllServedOk
    /\ served[2].asked = [maxResults |-> 500, pageToken |-> 2]
    /\ served[3].asked = [maxResults |-> 500, pageToken |-> 3]
    /\ caller_params = [maxResults |-> 500]

\* ======================================================================
\* A further claim about the retried GET, checked under SpecRetry
\* ======================================================================
\* C20: every backoff sleep is followed by a retry request: a call that
\* issued k requests slept exactly k-1 times, whether it returned a response
\* or failed on the final transient one.
C20_SleepsBetweenRequestsOnly ==
    op = "backoff_get" =>
        /\ pc = "done" => sleeps = Len(log) - 1
        /\ sleeps <= Len(log)
        /\ pc = "bg_raise" => sleeps < Len(log)

\* ======================================================================
\* Further claims about the tree walks, checked under SpecPure
\* ======================================================================
\* the attachment-like nodes of a tree in depth-first pre-order
AttachmentLikeInPreorder(tree) == SelectSeq(Preorder(tree), AttachmentLikeNode)

\* C21: attachments_meta holds the records of the attachment-like nodes in
\* depth-first pre-order: the record of an attachment-like node comes before
\* the records of its attachment-like descendants.
C21_MetaInPreorder ==
    Stripped =>
        LET expected == AttachmentLikeInPreorder(full.payload)
            meta == yielded[1].attachments_meta
        IN /\ Len(meta) = Len(expected)
           /\ \A i \in 1..Len(meta) :
                 /\ meta[i].mimeType = expected[i].mimeType
                 /\ meta[i].filename
                      = (IF expected[i].filename # "" THEN expected[i].filename ELSE "None")

\* no text leaf of the tree needs an attachment fetch: every body has inline
\* data or has no attachmentId
NoFetchNeeded(tree) ==
    \A i \in 1..Len(Preorder(tree)) :
        LET b == Preorder(tree)[i].body
        IN "data" \in DOMAIN b \/ "attachmentId" \notin DOMAIN b
\* an upper-case spelling occurs in the tree
UpperCaseSpelled(tree) ==
    \E i \in 1..Len(Preorder(tree)) : Preorder(tree)[i].mimeType = "TEXT/PLAIN"

\* C22: on a tree in which no text leaf needs an attachment fetch the
\* attachment-aware extraction returns the pair (body_text, body_html) that
\* extractBodies returns on that tree, whatever the spelling of the
\* mimeTypes, and issues no attachment request.
C22_AwareAgreesWithExtractBodies ==
    (/\ op = "extract_bodies_attachment_aware" /\ pc = "done"
     /\ NoFetchNeeded(full.payload)) =>
        /\ outcome.kind = "returned"
        /\ yielded[1].text = ExtractBodies(full.payload).text
        /\ yielded[1].html = ExtractBodies(full.payload).html
        /\ net["attach"] = 0 /\ att_log = <<>>

\* ======================================================================
\* Further claims about the guarded route and the session, checked under Spec
\* ======================================================================
\* the per-request Gmail client was constructed
ClientConstructed == client # "none"

\* C23: whenever summarize_email constructed its Gmail client, the client is
\* closed exactly once before the request ends, on every exit path (success,
\* EmptyResultSet 404, fetch failure, summarization failure): it is open and
\* never closed while the request runs, closed once when the request is over.
C23_ClientClosedOnce ==
    (op = "summarize_email" /\ ClientConstructed) =>
        /\ closes <= 1
        /\ pc # "idle" => (client = "open" /\ closes = 0)
        /\ pc = "idle" =>
              /\ client = "closed" /\ closes = 1
              /\ http.status \in {200, 404, 500, 502}

\* a request ended by a failed message fetch, its client closed once
C23_Witness ==
    /\ op = "summarize_email" /\ pc = "idle"
    /\ outcome.kind = "raised" /\ http.status = 500
    /\ client = "closed" /\ closes = 1

\* the session holds a token
HasToken(s) == "token" \in DOMAIN s
\* the step ends a callback that succeeded
CallbackSucceeded == op' = "auth_callback" /\ http'.status = 307 /\ http'.detail = "/success"

\* C24: over any sequence of callbacks, logouts and guarded requests on one
\* session, a token enters the session only by a callback whose token
\* contained userinfo, a logout leaves the session without a token, and a
\* guarded request on a session without a token is rejected with 401 without
\* any Gmail request.
C24_TokenLifecycle ==
    [][/\ HasToken(session') =>
            /\ session'["token"].userinfo
            /\ HasToken(session) \/ CallbackSucceeded
       /\ op' = "logout" => ~HasToken(session')
       /\ (op' = "summarize_email" /\ ~HasToken(session')) =>
            /\ http'.status = 401
            /\ net' = NoNet /\ llm_calls' = 0 /\ client' = "none" /\ pc' = "idle"]_vars

\* a guarded request rejected with 401 on a session that a logout emptied
\* after an earlier request of the session had been let through
C24_Witness ==
    /\ op = "summarize_email" /\ pc = "idle"
    /\ session = EmptyDict /\ state_token # EmptyDict
    /\ http.status = 401 /\ net = NoNet /\ client = "none"

====
